---- MODULE Spec2Model ----
(***************************************************************************)
(* Model of the audio pipeline of time2freq (src/src/audio.rs and          *)
(* src/src/resources.rs): the playback worker thread, the command channel, *)
(* the two rtrb rings, the cpal output callback, play() and rms().         *)
(* Samples are integers: 0 is silence, every decoded sample of a track is  *)
(* a distinct positive number, Junk is what an output slot holds before    *)
(* the callback writes it.                                                 *)
(***************************************************************************)
EXTENDS Integers, Sequences, FiniteSets, TLC

\* ---------------------------------------------------------------- bounds
\* number of play() calls explored
MaxPlays == 2
\* largest output buffer (in frames) the device asks for in one callback
MaxFrames == 2
\* latency_frames of the session (audio.rs:48), a session parameter
LatencyFrames == 1
\* largest latency_ms explored by SpecAnyLatency, in quarters of a second
MaxLatencyQuarters == 6
\* chunk_size passed to AudioPlayer::new (audio.rs:40), in frames
ChunkFrames == 2
\* largest device channel count explored by SpecAnyChannels
MaxDeviceChannels == 3
\* largest elapsed time passed to rms(), in half time units
MaxDt == 3

\* ------------------------------------------------------------- constants
\* the chunk length the callback and the analyzer read: read_chunk(2)
ReadChunkLen == 2
\* config.sample_rate.0, in abstract units
DeviceSampleRate == 1
\* content of an output slot the callback has not written
Junk == -1
\* the divisor of the latency computation: milliseconds per second
MsPerSecond == 1000

\* ----------------------------------------------------------------- files
Block(s) == [kind |-> "block", samples |-> s]
DecodeErr == [kind |-> "decode_error", samples |-> <<>>]
OtherTrack == [kind |-> "other_track", samples |-> <<>>]
IoErr == [kind |-> "io_error", samples |-> <<>>]

\* The files a play command can name: what AudioFile::open finds and the
\* packets format.next_packet() then yields (after the last one it fails
\* with the end-of-stream error).
Files ==
  [ a |-> [open |-> "ok", rate |-> 1, channels |-> 2,
           packets |-> << Block(<<11, 12>>), Block(<<13, 14>>) >>],
    b |-> [open |-> "ok", rate |-> 1, channels |-> 2,
           packets |-> << Block(<<21, 22>>), DecodeErr, Block(<<23, 24>>) >>],
    m |-> [open |-> "ok", rate |-> 1, channels |-> 1,
           packets |-> << Block(<<41>>), IoErr, Block(<<42>>) >>],
    r |-> [open |-> "ok", rate |-> 2, channels |-> 2,
           packets |-> << Block(<<31, 32>>),
                          Block(<<33, 34, 35, 36, 37, 38, 39, 40>>),
                          OtherTrack, Block(<<51, 52>>) >>],
    x |-> [open |-> "missing", rate |-> 1, channels |-> 2, packets |-> << >>] ]

Paths == DOMAIN Files

VARIABLES
  device_channels,   \* config.channels
  latency_ms,        \* the latency_ms passed to AudioPlayer::new
  dropped,           \* the AudioPlayer was dropped: sender, stream, lvl_cons
  cmdq,              \* the unbounded channel tx_play_song -> rx_play_song
  ui_panicked,       \* the caller's thread panicked in play()
  wpc,               \* worker position: "recv", "decode", "push", "sleep", "panicked",
                     \* or "done" when the thread has returned
  song,              \* the path the worker is playing ("" before the first)
  pkt,               \* index of the next packet of the open file
  resampler,         \* TRUE iff a Resampler was created for the track
  audio_buf,         \* accumulation buffer of the resampling path
  output,            \* the block being pushed
  out_pos,           \* index in output of the sample being pushed
  device_ring,       \* content of the playback ring, oldest first
  analysis_ring,     \* content of the analysis ring, oldest first
  cb_pc,             \* callback position: "idle", "frames", "log", "panicked"
  data,              \* the output buffer of the running callback
  cb_frame,          \* index of the next frame of data to fill
  input_fell_behind, \* the callback's flag
  \* history
  sent,              \* paths passed to play(), in call order
  opened,            \* paths the worker passed to AudioFile::open, in order
  put,               \* every sample put into the playback ring, in order
  produced,          \* every output block of the worker, concatenated
  retry,             \* "pending": the current sample had a rejected push;
                     \* "delivered": a sample that had one was pushed; else "none"
  emitted,           \* samples of the frames the callback took from the ring
  failed_pops,       \* frames of this callback invocation whose pop failed
  underruns_logged,  \* "input fell behind" events logged by this invocation
  tapped,            \* every sample accepted by the analysis ring, in order
  track_start,       \* Len(produced) when the current track was opened
  lv_pc,             \* rms() position: "idle", or "drain" inside the loop
  buf_size,          \* rms(): buf_size of the running query, or of the last one
  lsq,               \* rms(): the vector l (squares of channel 0)
  rsq,               \* rms(): the vector r (squares of channel 1)
  rms,               \* self.rms, a pair of means [sum, n] standing for sum / n
  ret,               \* the level pair the last rms() call returned
  drained            \* history: the frames the last finished query drained

cfg_vars == << device_channels, latency_ms >>
ui_vars == << cmdq, ui_panicked, sent, dropped >>
worker_vars == << wpc, song, pkt, resampler, audio_buf, output, out_pos, opened,
                 produced, retry, track_start >>
ring_vars == << device_ring, analysis_ring, put, tapped >>
cb_vars == << cb_pc, data, cb_frame, input_fell_behind, emitted, failed_pops,
              underruns_logged >>
lv_vars == << lv_pc, buf_size, lsq, rsq, rms, ret, drained >>
vars == << device_channels, latency_ms, dropped, cmdq, ui_panicked, sent, wpc, song,
           pkt, resampler,
           audio_buf, output, out_pos, opened, produced, retry, device_ring,
           analysis_ring, put, cb_pc, data, cb_frame, input_fell_behind, emitted,
           failed_pops, underruns_logged, tapped, track_start, lv_pc, buf_size,
           lsq, rsq, rms, ret, drained >>

\* ----------------------------------------------------------------- rings
\* a latency computation that drops the fraction instead of rounding
LatencyFramesTruncated(ms) == (ms * DeviceSampleRate) \div MsPerSecond

\* (latency_ms as f32 * device_sample_rate as f32 / 1000.0).round(): the
\* nearest whole number of frames, a half rounding up
LatencyFramesOf(ms) == (2 * ms * DeviceSampleRate + MsPerSecond) \div (2 * MsPerSecond)

\* latency_frames of the session
latency_frames == LatencyFramesOf(latency_ms)

\* latency_samples = latency_frames * device_channels
LatencySamples == latency_frames * device_channels

\* rtrb::RingBuffer::new(latency_samples * 2)
RingCapacity == LatencySamples * 2

\* a prefill that stops one frame early
PrefillOneFrameShort == [i \in 1..(LatencySamples - ReadChunkLen) |-> 0]

\* the prefill loop: latency_samples pushes of 0.0
Prefill == [i \in 1..LatencySamples |-> 0]

\* an off-by-one capacity test: one more slot than the ring has
PushOkOffByOne(ring) == Len(ring) <= RingCapacity

\* Producer::push: Ok iff a slot is free
PushOk(ring) == Len(ring) < RingCapacity

\* a ring that hands out the newest sample first
PushLifo(ring, s) == IF PushOk(ring) THEN << s >> \o ring ELSE ring

\* Producer::push: the ring after the call
Push(ring, s) == IF PushOk(ring) THEN Append(ring, s) ELSE ring

\* Consumer::read_chunk(n): Ok iff n slots are filled
ReadChunkOk(ring, n) == Len(ring) >= n

\* the chunk read_chunk(n) hands out
ReadChunk(ring, n) == SubSeq(ring, 1, n)

\* a read that commits one slot too few: the last sample is read again
AfterReadShort(ring, n) == SubSeq(ring, n, Len(ring))

\* a read that commits one slot more than the chunk it handed out
AfterReadTooMany(ring, n) == SubSeq(ring, n + 2, Len(ring))

\* the ring after a chunk of n was consumed
AfterRead(ring, n) == SubSeq(ring, n + 1, Len(ring))

\* ------------------------------------------------------------- resampler
\* chunk_size = audio.channels() * chunk_size  (samples per chunk)
ChunkSamples(f) == Files[f].channels * ChunkFrames

\* a drain that fills one channel's buffer after the other
DeinterleavePlanar(chunk, nch) ==
  [c \in 1..nch |->
     [i \in 1..(Len(chunk) \div nch) |-> chunk[(c - 1) * (Len(chunk) \div nch) + i]]]

\* the drain loop: buf_in[channel] receives every nch-th sample of the chunk
Deinterleave(chunk, nch) ==
  [c \in 1..nch |-> [i \in 1..(Len(chunk) \div nch) |-> chunk[(i - 1) * nch + c]]]

\* the value the resampler computes from an input sample
Resampled(s) == 100 + s

\* inner.process_into_buffer: in_frames * device_rate / track_rate output
\* frames per channel, each computed from the input frame at its position
Process(buf_in, rate) ==
  [c \in DOMAIN buf_in |->
     [j \in 1..((Len(buf_in[c]) * DeviceSampleRate) \div rate) |->
        Resampled(buf_in[c][((j - 1) * rate) \div DeviceSampleRate + 1])]]

\* the loop filling resampler_final: frame by frame, channel by channel
Interleave(buf_out, nch) ==
  [k \in 1..(Len(buf_out[1]) * nch) |-> buf_out[((k - 1) % nch) + 1][((k - 1) \div nch) + 1]]

\* the resampled chunk pushed for one drained chunk of the accumulation buffer
ResampleChunk(chunk, f) ==
  Interleave(Process(Deinterleave(chunk, Files[f].channels), Files[f].rate),
             Files[f].channels)

\* ----------------------------------------------------------------- level
\* the elapsed times are counted in halves of the time unit
DtUnit == 2

\* (dt.as_secs_f32() * sample_rate as f32).round(): halves round away from 0
BufSize(dt) == (2 * dt * DeviceSampleRate + DtUnit) \div (2 * DtUnit)

\* powi(2)
Sq(s) == s * s

RECURSIVE SumSeq(_)
\* iter().sum()
SumSeq(q) == IF q = << >> THEN 0 ELSE Head(q) + SumSeq(Tail(q))

\* sum / len, kept as the pair it is the quotient of
Mean(q) == [sum |-> SumSeq(q), n |-> Len(q)]

\* rms: [0., 0.]
ZeroLevel == [sum |-> 0, n |-> 1]

\* a query that resets the snapshot when it drained nothing
NewRmsResets(old, l, r) ==
  IF l # << >> /\ r # << >> THEN << Mean(l), Mean(r) >> ELSE << ZeroLevel, ZeroLevel >>

\* self.rms after the query: replaced only when frames were drained
NewRms(old, l, r) ==
  IF l # << >> /\ r # << >> THEN << Mean(l), Mean(r) >> ELSE old

\* ------------------------------------------------------------------ init
InitCommon ==
  /\ cmdq = << >>
  /\ ui_panicked = FALSE
  /\ dropped = FALSE
  /\ wpc = "recv"
  /\ song = ""
  /\ pkt = 1
  /\ resampler = FALSE
  /\ audio_buf = << >>
  /\ output = << >>
  /\ out_pos = 1
  /\ device_ring = Prefill
  /\ analysis_ring = << >>
  /\ cb_pc = "idle"
  /\ data = << >>
  /\ cb_frame = 1
  /\ input_fell_behind = FALSE
  /\ sent = << >>
  /\ opened = << >>
  /\ put = Prefill
  /\ produced = << >>
  /\ retry = "none"
  /\ emitted = << >>
  /\ failed_pops = 0
  /\ underruns_logged = 0
  /\ tapped = << >>
  /\ track_start = 0
  /\ lv_pc = "idle"
  /\ buf_size = 0
  /\ lsq = << >>
  /\ rsq = << >>
  /\ rms = << ZeroLevel, ZeroLevel >>
  /\ ret = << ZeroLevel, ZeroLevel >>
  /\ drained = 0

\* the latency_ms that gives LatencyFrames frames at the device rate
LatencyMs == (LatencyFrames * MsPerSecond) \div DeviceSampleRate

\* the latencies a session can be asked for: every quarter of a second
LatencyMsChoices == { k * (MsPerSecond \div 4) : k \in 0..MaxLatencyQuarters }

\* a session on a two-channel output configuration
Init == device_channels = 2 /\ latency_ms = LatencyMs /\ InitCommon

\* a session on any output configuration AudioPlayer::new accepts
InitAnyChannels ==
  device_channels \in 1..MaxDeviceChannels /\ latency_ms = LatencyMs /\ InitCommon

\* a two-channel session with any latency
InitAnyLatency == device_channels = 2 /\ latency_ms \in LatencyMsChoices /\ InitCommon

\* ------------------------------------------------------------------ play
\* the worker thread is alive, so rx_play_song exists
ReceiverAlive == wpc # "panicked"

\* AudioPlayer::play: send(song).unwrap()
Play ==
  \E p \in Paths :
    /\ ~ui_panicked
    /\ ~dropped
    /\ lv_pc = "idle"
    /\ Len(sent) < MaxPlays
    /\ sent' = Append(sent, p)
    /\ IF ReceiverAlive
         THEN cmdq' = Append(cmdq, p) /\ UNCHANGED ui_panicked
         ELSE ui_panicked' = TRUE /\ UNCHANGED cmdq
    /\ UNCHANGED << cfg_vars, dropped, worker_vars, ring_vars, cb_vars, lv_vars >>

\* ---------------------------------------------------------------- worker
\* a channel that hands out the newest command first
RecvNewest(q) == q[Len(q)]

\* rx_play_song.recv(): the command handed to the worker
RecvSong(q) == Head(q)

\* the channel after the recv
AfterRecv(q) == Tail(q)

\* AudioFile::open(song) returned Ok
OpenOk(f) == Files[f].open = "ok"

\* a worker that builds a resampler for every track
NeedsResamplerAlways(f) == TRUE

\* audio.sample_rate() != device_sample_rate
NeedsResampler(f) == Files[f].rate # DeviceSampleRate

\* the worker takes the next command, opens the file and sets the track up
WorkerRecv ==
  /\ wpc = "recv"
  /\ cmdq # << >>
  /\ LET s == RecvSong(cmdq) IN
       /\ cmdq' = AfterRecv(cmdq)
       /\ opened' = Append(opened, s)
       /\ song' = s
       /\ track_start' = Len(produced)
       /\ IF OpenOk(s)
            THEN /\ wpc' = "decode"
                 /\ pkt' = 1
                 /\ resampler' = NeedsResampler(s)
                 /\ audio_buf' = << >>
                 /\ output' = << >>
                 /\ out_pos' = 1
            ELSE /\ wpc' = "panicked"
                 /\ UNCHANGED << pkt, resampler, audio_buf, output, out_pos >>
  /\ UNCHANGED << cfg_vars, ui_panicked, sent, dropped, produced, retry, ring_vars, cb_vars,
                  lv_vars >>

\* AudioFile::next_sample: "some" with a block, "none", or "err"
NextSampleResult(f, k) ==
  IF k > Len(Files[f].packets) THEN "err"
  ELSE LET p == Files[f].packets[k] IN
    CASE p.kind = "io_error" -> "err"
      [] p.kind = "other_track" -> "none"
      [] p.kind = "decode_error" -> "none"
      [] OTHER -> "some"

\* a decode loop that polls the command channel and breaks on a new command
AfterResultPreempt(res) == IF res = "some" /\ cmdq = << >> THEN "decode" ELSE "recv"

\* a decode loop that unwraps the result of next_sample
AfterResultUnwrap(res) ==
  IF res = "some" THEN "decode" ELSE IF res = "err" THEN "panicked" ELSE "recv"

\* what the decode loop does with a next_sample result: "decode" to go on
\* with the block, "recv" to break out of the loop
AfterResult(res) == IF res = "some" THEN "decode" ELSE "recv"

\* where the worker goes once it has an output block
AfterOutput(out) == IF Len(out) > 0 THEN "push" ELSE "decode"

\* one iteration of the decode loop up to the push loop
WorkerDecode ==
  /\ wpc = "decode"
  /\ LET res == NextSampleResult(song, pkt) IN
       IF AfterResult(res) # "decode"
         THEN /\ wpc' = AfterResult(res)
              /\ UNCHANGED << pkt, audio_buf, output, out_pos, produced >>
         ELSE LET signal == Files[song].packets[pkt].samples IN
              /\ pkt' = pkt + 1
              /\ IF resampler
                   THEN LET buf == audio_buf \o signal
                            n == ChunkSamples(song) IN
                        IF Len(buf) >= n
                          THEN /\ audio_buf' = SubSeq(buf, n + 1, Len(buf))
                               /\ output' = ResampleChunk(SubSeq(buf, 1, n), song)
                               /\ out_pos' = 1
                               /\ produced' = produced \o output'
                               /\ wpc' = AfterOutput(output')
                          ELSE /\ audio_buf' = buf
                               /\ wpc' = "decode"
                               /\ UNCHANGED << output, out_pos, produced >>
                   ELSE /\ output' = signal
                        /\ out_pos' = 1
                        /\ produced' = produced \o signal
                        /\ wpc' = AfterOutput(signal)
                        /\ UNCHANGED audio_buf
  /\ UNCHANGED << cfg_vars, ui_vars, song, resampler, opened, retry, track_start,
                  ring_vars, cb_vars, lv_vars >>

\* a push loop that also backs off when the analysis ring rejects the sample
AfterPushTapBlocks(ok, pos, out) ==
  IF ok /\ PushOk(analysis_ring)
    THEN (IF pos + 1 > Len(out) THEN "decode" ELSE "push")
    ELSE "sleep"

\* the worker's position after a push attempt on the sample at pos
AfterPush(ok, pos, out) ==
  IF ok THEN (IF pos + 1 > Len(out) THEN "decode" ELSE "push") ELSE "sleep"

\* a push loop that moves on whether or not the push succeeded
NextPosSkip(ok, pos) == pos + 1

\* the index of the sample the worker tries next
NextPos(ok, pos) == IF ok THEN pos + 1 ELSE pos

\* a tap that pushes on every attempt, before the playback push is known
TapEveryAttempt(ok, ring, s) == Push(ring, s)

\* a tap that makes room in a full analysis ring by discarding its oldest
\* sample
TapOverwritesOldest(ok, ring, s) ==
  IF ~ok THEN ring ELSE IF PushOk(ring) THEN Append(ring, s) ELSE Append(Tail(ring), s)

\* analysis_send.push(*sample), made once the playback push succeeded
Tap(ok, ring, s) == IF ok THEN Push(ring, s) ELSE ring

\* one attempt of the push loop on the current sample
WorkerPush ==
  /\ wpc = "push"
  /\ LET s == output[out_pos]
         ok == PushOk(device_ring) IN
       /\ device_ring' = Push(device_ring, s)
       /\ put' = IF ok THEN Append(put, s) ELSE put
       /\ analysis_ring' = Tap(ok, analysis_ring, s)
       /\ tapped' = IF analysis_ring' # analysis_ring THEN Append(tapped, s) ELSE tapped
       /\ out_pos' = NextPos(ok, out_pos)
       /\ wpc' = AfterPush(ok, out_pos, output)
       /\ retry' = IF ~ok THEN "pending"
                   ELSE IF retry = "none" THEN "none" ELSE "delivered"
  /\ UNCHANGED << cfg_vars, ui_vars, song, pkt, resampler, audio_buf, output,
                  opened, produced, track_start, cb_vars, lv_vars >>

\* thread::sleep returns and the loop retries the push
WorkerWake ==
  /\ wpc = "sleep"
  /\ wpc' = "push"
  /\ UNCHANGED << cfg_vars, ui_vars, song, pkt, resampler, audio_buf, output,
                  out_pos, opened, produced, retry, track_start, ring_vars, cb_vars,
                  lv_vars >>

Worker == WorkerRecv \/ WorkerDecode \/ WorkerPush \/ WorkerWake

\* -------------------------------------------------------------- callback
\* data.chunks_mut(device_channels): the number of frames of the buffer
Frames == Len(data) \div device_channels

\* index in data of slot k (0-based) of frame f
Slot(f, k) == (f - 1) * device_channels + k + 1

\* the callback indexes sample[0] and sample[1]: a shorter frame panics
FrameFits == device_channels >= ReadChunkLen

\* a frame write that sets sample[0] only
WriteFrameFirstOnly(buf, f, v0, v1) ==
  [i \in DOMAIN buf |-> IF i = Slot(f, 0) THEN v0 ELSE buf[i]]

\* sample[0] = v0; sample[1] = v1 on frame f
WriteFrame(buf, f, v0, v1) ==
  [i \in DOMAIN buf |->
     IF i = Slot(f, 0) THEN v0
     ELSE IF FrameFits /\ i = Slot(f, 1) THEN v1
     ELSE buf[i]]

\* the value written to slot k of a frame whose pop failed
Silence(k) == 0

\* the samples the callback asks the playback ring for, per frame
PopLen == ReadChunkLen

\* the device invokes the callback with a buffer of F frames
CallbackStart ==
  /\ cb_pc = "idle"
  /\ ~dropped
  /\ \E F \in 1..MaxFrames :
       data' = [i \in 1..(F * device_channels) |-> Junk]
  /\ cb_frame' = 1
  /\ input_fell_behind' = FALSE
  /\ failed_pops' = 0
  /\ underruns_logged' = 0
  /\ cb_pc' = "frames"
  /\ UNCHANGED << cfg_vars, ui_vars, worker_vars, ring_vars, emitted, lv_vars >>

\* a frame loop that is left after its first iteration
AfterFrameStopsEarly(f) == IF ~FrameFits THEN "panicked" ELSE "log"

\* the callback's position after a frame
AfterFrame(f) == IF ~FrameFits THEN "panicked" ELSE IF f + 1 > Frames THEN "log" ELSE "frames"

\* one iteration of the loop over the frames of data
CallbackFrame ==
  /\ cb_pc = "frames"
  /\ IF ReadChunkOk(device_ring, PopLen)
       THEN LET chunk == ReadChunk(device_ring, PopLen) IN
            /\ data' = WriteFrame(data, cb_frame, chunk[1], chunk[2])
            /\ device_ring' = AfterRead(device_ring, PopLen)
            /\ emitted' = IF FrameFits THEN emitted \o chunk ELSE emitted
            /\ UNCHANGED << input_fell_behind, failed_pops >>
       ELSE /\ input_fell_behind' = TRUE
            /\ failed_pops' = failed_pops + 1
            /\ data' = WriteFrame(data, cb_frame, Silence(0), Silence(1))
            /\ UNCHANGED << device_ring, emitted >>
  /\ cb_frame' = cb_frame + 1
  /\ cb_pc' = AfterFrame(cb_frame)
  /\ UNCHANGED << cfg_vars, ui_vars, worker_vars, analysis_ring, put, tapped,
                  underruns_logged, lv_vars >>

\* the events logged when the loop is over: one warning if the flag is set
Logged(flag, failed) == IF flag THEN 1 ELSE 0

\* the end of the callback: the warning, and the buffer goes to the device
CallbackEnd ==
  /\ cb_pc = "log"
  /\ underruns_logged' = Logged(input_fell_behind, failed_pops)
  /\ data' = << >>
  /\ cb_pc' = "idle"
  /\ UNCHANGED << cfg_vars, ui_vars, worker_vars, ring_vars, cb_frame,
                  input_fell_behind, emitted, failed_pops, lv_vars >>

Callback == CallbackStart \/ CallbackFrame \/ CallbackEnd

\* ----------------------------------------------------------- level query
\* the drain loop goes on after a frame unless l.len() >= buf_size
AfterDrain(n, size) == IF n >= size THEN "idle" ELSE "drain"

\* One evaluation of `while let Ok(chunk) = read_chunk(2)` with the loop body
\* if a chunk came, for a query whose vectors are l and r and whose buf_size
\* is size. When the loop is over the rest of rms() follows, which touches
\* nothing another thread sees: the vectors are fed to ebur128, the snapshot
\* is replaced if they are not empty, the snapshot is returned and the
\* vectors are dropped (buf_size is kept for the record).
ReadAndDrain(l, r, size) ==
  LET ok == ReadChunkOk(analysis_ring, ReadChunkLen)
      chunk == ReadChunk(analysis_ring, ReadChunkLen)
      nl == IF ok THEN Append(l, Sq(chunk[1])) ELSE l
      nr == IF ok THEN Append(r, Sq(chunk[2])) ELSE r
      nx == IF ok THEN AfterDrain(Len(nl), size) ELSE "idle" IN
  /\ lv_pc' = nx
  /\ analysis_ring' =
       IF ok THEN AfterRead(analysis_ring, ReadChunkLen) ELSE analysis_ring
  /\ buf_size' = size
  /\ lsq' = IF nx = "idle" THEN << >> ELSE nl
  /\ rsq' = IF nx = "idle" THEN << >> ELSE nr
  /\ rms' = IF nx = "idle" THEN NewRms(rms, nl, nr) ELSE rms
  /\ ret' = IF nx = "idle" THEN rms' ELSE ret
  /\ drained' = IF nx = "idle" THEN Len(nl) ELSE drained
  /\ UNCHANGED << cfg_vars, ui_vars, worker_vars, device_ring, put, tapped, cb_vars >>

\* the caller invokes rms(dt): the vectors start empty
LevelCall ==
  /\ lv_pc = "idle"
  /\ ~ui_panicked
  /\ ~dropped
  /\ \E dt \in 0..MaxDt : ReadAndDrain(<< >>, << >>, BufSize(dt))

\* a later iteration of the drain loop
LevelDrain ==
  /\ lv_pc = "drain"
  /\ ReadAndDrain(lsq, rsq, buf_size)

Level == LevelCall \/ LevelDrain

\* --------------------------------------------------------- specification
\* the playback path: play(), the worker thread and the device callback
Next == Play \/ Worker \/ Callback

\* a session whose caller never asks for the level
Spec == Init /\ [][Next]_vars

\* sessions on any channel count
SpecAnyChannels == InitAnyChannels /\ [][Next]_vars

\* the worker thread runs whenever it can and the device keeps invoking the
\* callback
FairSpec == Init /\ [][Next]_vars /\ WF_vars(Worker) /\ WF_vars(Callback)

\* sessions of every latency
SpecAnyLatency == InitAnyLatency /\ [][Next]_vars

\* the whole player: the caller also polls rms() between its play() calls
NextLevel == Play \/ Worker \/ Callback \/ Level

\* a session whose caller asks for the level at any time
SpecLevel == Init /\ [][NextLevel]_vars

\* ------------------------------------------------------------- session end
\* the caller drops the AudioPlayer: the command sender, the output stream
\* with the callback's ring consumer, and the analyzer's ring consumer go. A
\* callback invocation that is running finishes; none starts afterwards.
Drop ==
  /\ ~dropped
  /\ lv_pc = "idle"
  /\ dropped' = TRUE
  /\ UNCHANGED << cfg_vars, cmdq, ui_panicked, sent, worker_vars, ring_vars, cb_vars,
                  lv_vars >>

\* rx_play_song.recv() returns Err once the channel is empty and the sender
\* is gone: the while loop ends and the thread returns
WorkerExit ==
  /\ wpc = "recv"
  /\ cmdq = << >>
  /\ dropped
  /\ wpc' = "done"
  /\ UNCHANGED << cfg_vars, ui_vars, song, pkt, resampler, audio_buf, output,
                  out_pos, opened, produced, retry, track_start, ring_vars, cb_vars,
                  lv_vars >>

\* a session that the caller may end at any time
NextDrop == Play \/ Worker \/ WorkerExit \/ Callback \/ Drop

\* the worker thread runs whenever it can, to its end, and the device keeps
\* invoking the callback while the stream exists
FairSpecDrop ==
  Init /\ [][NextDrop]_vars /\ WF_vars(Worker \/ WorkerExit) /\ WF_vars(Callback)

\* ================================================================ claims
InPushLoop == wpc \in {"push", "sleep"}

\* the samples the worker itself put into the playback ring
WorkerPut == SubSeq(put, Len(Prefill) + 1, Len(put))

IsPrefix(p, q) == Len(p) <= Len(q) /\ p = SubSeq(q, 1, Len(p))

\* a step of the push loop (an attempt on the current sample)
PushStep == wpc = "push" /\ (wpc' # wpc \/ out_pos' # out_pos)

\* a step of the decode loop
DecodeStep == wpc = "decode" /\ (wpc' # wpc \/ pkt' # pkt)

\* a step of the callback's frame loop
FrameStep == cb_pc = "frames" /\ cb_frame' # cb_frame

\* C1: on the playback path the worker never skips a sample. What the worker
\* has pushed is always exactly the first samples of what it has produced,
\* it is at sample out_pos of the current block exactly when the out_pos - 1
\* samples before it are pushed, a rejected push leaves it on the same sample,
\* and with the callback draining every produced sample is eventually pushed.
C1_NoSampleSkipped ==
  /\ [](/\ IsPrefix(WorkerPut, produced)
        /\ InPushLoop => Len(WorkerPut) = Len(produced) - Len(output) + out_pos - 1
        /\ ~InPushLoop => WorkerPut = produced)
  /\ [][PushStep /\ ~PushOk(device_ring) =>
          /\ wpc' = "sleep" /\ out_pos' = out_pos /\ output' = output
          /\ put' = put]_vars
  /\ []<>(WorkerPut = produced)

\* C1 witness: a sample was pushed after a rejected push and a sleep, and
\* every sample the worker produced was delivered
C1_Witness ==
  /\ retry = "delivered"
  /\ wpc = "recv"
  /\ produced # << >>
  /\ WorkerPut = produced

\* C2: the frames the callback took from the ring, in emission order, are a
\* prefix of what was put into the ring (prefill, then the worker's pushes),
\* and what was put and not yet emitted is the ring's content: nothing is
\* duplicated, reordered or lost.
C2_EmittedIsPrefixOfPut ==
  /\ IsPrefix(emitted, put)
  /\ put = emitted \o device_ring

\* C2 witness: in one callback the first frame underran and the second frame
\* carries track samples pushed meanwhile
C2_Witness ==
  /\ cb_pc = "log"
  /\ Frames = 2
  /\ failed_pops = 1
  /\ data[Slot(2, 0)] > 0
  /\ IsPrefix(emitted, put)

\* C3: a ring never holds more than its capacity; a push succeeds iff the
\* ring holds fewer than RingCapacity samples and then adds exactly that
\* sample, a rejected push changes nothing, and a pop removes exactly the
\* samples it returns, so k pops make room for exactly k pushes.
C3_CapacityRespected ==
  /\ [](/\ Len(device_ring) \in 0..RingCapacity
        /\ Len(analysis_ring) \in 0..RingCapacity
        /\ Len(put) = Len(emitted) + Len(device_ring))
  /\ [][PushStep =>
          /\ (out_pos' = out_pos + 1) <=> (Len(device_ring) < RingCapacity)
          /\ Len(device_ring) < RingCapacity =>
               device_ring' = Append(device_ring, output[out_pos])
          /\ Len(device_ring) >= RingCapacity =>
               device_ring' = device_ring /\ analysis_ring' = analysis_ring
          /\ Len(analysis_ring) >= RingCapacity => analysis_ring' = analysis_ring]_vars

\* C3 witness: the ring is full again and a push was just rejected, after
\* samples were popped from it and exactly as many were pushed
C3_Witness ==
  /\ wpc = "sleep"
  /\ Len(device_ring) = RingCapacity
  /\ Len(emitted) > 0
  /\ Len(put) = RingCapacity + Len(emitted)

C5_CommandsInArrivalOrder ==
  /\ IsPrefix(opened, sent)
  /\ opened \o cmdq = SubSeq(sent, 1, Len(sent) - (IF ui_panicked THEN 1 ELSE 0))

\* C5 witness: two different commands were both waiting and then opened
C5_Witness ==
  /\ Len(opened) = 2
  /\ opened[1] # opened[2]
  /\ opened = sent

\* C6 as claimed: after a play command for a file that cannot be opened the
\* worker thread is alive and idle or playing, and play() still works.
C6_WorkerSurvivesBadFile ==
  (\E i \in 1..Len(opened) : ~OpenOk(opened[i])) =>
     (wpc # "panicked" /\ ~ui_panicked)

\* the packets of file f before packet j are blocks or recoverable errors
ReachesPacket(f, j) ==
  \A i \in 1..(j - 1) : Files[f].packets[i].kind \in {"block", "decode_error"}

\* C7 as claimed: when the worker is done with a track, it has gone past
\* every packet that failed with a recoverable decode error, to the packets
\* that follow it.
C7_BadPacketSkipped ==
  (wpc = "recv" /\ song \in Paths /\ OpenOk(song)) =>
     \A j \in 1..Len(Files[song].packets) :
        (Files[song].packets[j].kind = "decode_error" /\ ReachesPacket(song, j))
           => pkt > j

\* the slots of frame f of data
FrameSlots(f) == { Slot(f, k) : k \in 0..(device_channels - 1) }

\* C8: a frame whose pop fails gets zero in every slot, the ring is left as
\* it was and the loop goes on to the next frame; after a callback in which
\* every pop failed the whole buffer is zero.
C8_UnderrunWritesSilence ==
  /\ [][FrameStep /\ ~ReadChunkOk(device_ring, ReadChunkLen) =>
          /\ \A i \in FrameSlots(cb_frame) : data'[i] = 0
          /\ \A i \in DOMAIN data \ FrameSlots(cb_frame) : data'[i] = data[i]
          /\ device_ring' = device_ring
          /\ cb_frame' = cb_frame + 1
          /\ cb_pc' \in {"frames", "log"}]_vars
  /\ []((cb_pc = "log" /\ failed_pops = Frames) =>
          \A i \in DOMAIN data : data[i] = 0)

\* C8 witness: a callback of the largest buffer in which every pop failed
C8_Witness ==
  /\ cb_pc = "log"
  /\ Frames = MaxFrames
  /\ failed_pops = Frames
  /\ \A i \in DOMAIN data : data[i] = 0

\* C9 as claimed: when a callback has returned, the underrun events it
\* recorded are as many as the frames whose pop failed.
C9_OneEventPerFailedPop ==
  cb_pc = "idle" => underruns_logged = failed_pops

\* C10 as claimed: for every frame the callback takes device_channels
\* samples from the ring and writes every slot of the frame.
C10_PopsChannelCount ==
  [][FrameStep /\ ReadChunkOk(device_ring, ReadChunkLen) =>
       /\ Len(device_ring) - Len(device_ring') = device_channels
       /\ \A i \in FrameSlots(cb_frame) : data'[i] # Junk
       /\ cb_pc' # "panicked"]_vars

RECURSIVE IsSubsequence(_, _)
\* p can be obtained from q by deleting elements
IsSubsequence(p, q) ==
  IF p = << >> THEN TRUE
  ELSE IF q = << >> THEN FALSE
  ELSE IF Head(p) = Head(q) THEN IsSubsequence(Tail(p), Tail(q))
  ELSE IsSubsequence(p, Tail(q))

\* C11: the analysis tap never holds playback back. An attempt whose playback
\* push succeeds moves the worker to the next sample and never to the sleep,
\* whatever the analysis ring holds; the sample goes into the analysis ring
\* once if that ring has room and is dropped if it has none; an attempt whose
\* playback push is rejected does not touch the analysis ring. So what the
\* worker pushed into the playback ring is always the first samples of what
\* it produced, with the analysis ring empty, full or never drained.
C11_TapNeverBackpressures ==
  /\ [](IsPrefix(WorkerPut, produced))
  /\ [][PushStep /\ PushOk(device_ring) =>
          /\ out_pos' = out_pos + 1
          /\ wpc' = (IF out_pos = Len(output) THEN "decode" ELSE "push")
          /\ put' = Append(put, output[out_pos])
          /\ Len(analysis_ring) < RingCapacity =>
               analysis_ring' = Append(analysis_ring, output[out_pos])
          /\ Len(analysis_ring) >= RingCapacity =>
               analysis_ring' = analysis_ring /\ tapped' = tapped]_vars
  /\ [][PushStep /\ ~PushOk(device_ring) =>
          analysis_ring' = analysis_ring /\ tapped' = tapped]_vars

\* C11 witness: two tracks were delivered in full to the playback ring while
\* the analysis ring was full and dropped samples
C11_Witness ==
  /\ wpc = "recv"
  /\ Len(opened) = 2
  /\ WorkerPut = produced
  /\ Len(analysis_ring) = RingCapacity
  /\ Len(tapped) < Len(WorkerPut)

\* C12: the samples ever accepted by the analysis ring, in order, are a
\* subsequence of the samples the worker pushed into the playback ring.
C12_AnalyzedSubsequenceOfHeard == IsSubsequence(tapped, WorkerPut)

\* C12 witness: the analysis ring dropped a sample and accepted a later one,
\* so the analyzed samples are not an initial part of the heard ones
C12_Witness ==
  /\ tapped # << >>
  /\ IsSubsequence(tapped, WorkerPut)
  /\ ~IsPrefix(tapped, WorkerPut)

\* a step of rms() that starts a query
QueryStep ==
  /\ lv_pc = "idle"
  /\ << lv_pc, buf_size, rms, ret, drained >>' # << lv_pc, buf_size, rms, ret, drained >>

\* a step of rms() after which the query has returned
ReturnStep ==
  /\ lv_pc' = "idle"
  /\ \/ lv_pc = "drain"
     \/ << buf_size, rms, ret, drained >>' # << buf_size, rms, ret, drained >>

\* C13: a finished query has returned the stored snapshot, and a query that
\* finds no complete frame in the analysis ring returns at once what the
\* query before it returned, and leaves the stored snapshot and the analysis
\* ring as they were, for every elapsed time (zero included) and for an
\* empty ring as for a ring holding a single sample.
C13_NoFrameKeepsSnapshot ==
  /\ [](lv_pc = "idle" => ret = rms)
  /\ [][QueryStep /\ ~ReadChunkOk(analysis_ring, ReadChunkLen) =>
          /\ lv_pc' = "idle"
          /\ ret' = ret
          /\ rms' = rms
          /\ drained' = 0
          /\ analysis_ring' = analysis_ring]_vars

\* C13 witness: a query that drained nothing has returned a snapshot that is
\* not zero, the one an earlier query computed
C13_Witness ==
  /\ lv_pc = "idle"
  /\ drained = 0
  /\ ~ReadChunkOk(analysis_ring, ReadChunkLen)
  /\ ret = rms
  /\ rms # << ZeroLevel, ZeroLevel >>

\* C14 as claimed: a finished query drained at most buf_size frames, the
\* elapsed time times the device rate, rounded; none when that is zero.
C14_DrainsAtMostBufSize == lv_pc = "idle" => drained <= buf_size

\* the squares of the samples of channel c of the frames a returning query
\* drained: those of its earlier iterations and that of this step's frame
DrainedSquares(c) ==
  (IF lv_pc = "drain" THEN (IF c = 1 THEN lsq ELSE rsq) ELSE << >>)
    \o (IF analysis_ring' # analysis_ring THEN << Sq(analysis_ring[c]) >> ELSE << >>)

\* C15 as claimed: the level a query returns for a channel, when it drained
\* a frame, is the square root of the mean of the squares of the channel's
\* drained samples: its square is that mean. (Stated for the queries that
\* asked for a frame or more.)
C15_LevelIsRootMeanSquare ==
  [][ReturnStep /\ buf_size' > 0 /\ drained' > 0 =>
       \A c \in 1..2 :
          ret'[c].sum * ret'[c].sum * Len(DrainedSquares(c))
            = SumSeq(DrainedSquares(c)) * ret'[c].n * ret'[c].n]_vars

\* C16 as claimed: every call of play() puts its command into the channel
\* and returns to the caller, whatever the worker's state.
C16_PlayAlwaysEnqueues ==
  [][Len(sent') > Len(sent) =>
       /\ cmdq' = Append(cmdq, sent'[Len(sent')])
       /\ ui_panicked' = FALSE]_vars

RECURSIVE Decoded(_, _)
\* the samples of the packets of file f before packet k, concatenated
Decoded(f, k) ==
  IF k <= 1 THEN << >> ELSE Decoded(f, k - 1) \o Files[f].packets[k - 1].samples

\* the output blocks of the current track, concatenated
TrackProduced == SubSeq(produced, track_start + 1, Len(produced))

\* the samples the worker pushed into the playback ring for the current track
TrackPut == SubSeq(WorkerPut, track_start + 1, Len(WorkerPut))

\* C17: for a track whose rate is the device rate no resampler exists and
\* nothing is held back in the accumulation buffer, the output blocks are the
\* decoded blocks unchanged and in order, what was pushed for the track is
\* an initial part of them, and all of them once the track is over.
C17_PassThroughAtEqualRate ==
  (song \in Paths /\ OpenOk(song) /\ Files[song].rate = DeviceSampleRate) =>
     /\ resampler = FALSE
     /\ audio_buf = << >>
     /\ TrackProduced = Decoded(song, pkt)
     /\ IsPrefix(TrackPut, Decoded(song, pkt))
     /\ wpc = "recv" => TrackPut = Decoded(song, pkt)

\* C17 witness: the two blocks of track a were pushed as decoded
C17_Witness ==
  /\ song = "a"
  /\ wpc = "recv"
  /\ resampler = FALSE
  /\ TrackPut = << 11, 12, 13, 14 >>

\* a pop of n samples took place on a ring that went from before to after
Popped(before, after, n) ==
  /\ Len(before) >= n
  /\ after = SubSeq(before, n + 1, Len(before))

\* a step of rms(): it changes the query's state or takes a frame
AnalyzerStep == lv_vars' # lv_vars \/ Len(analysis_ring') < Len(analysis_ring)

\* C18: a two-sample pop by the callback or by the analyzer removes the two
\* oldest samples, which are the ones it returns, when the ring holds two or
\* more, and leaves the ring as it is when it holds fewer; a ring never
\* shrinks in another way.
C18_PopAllOrNothing ==
  /\ [][FrameStep =>
          IF Len(device_ring) >= ReadChunkLen
            THEN /\ Popped(device_ring, device_ring', ReadChunkLen)
                 /\ data'[Slot(cb_frame, 0)] = device_ring[1]
                 /\ data'[Slot(cb_frame, 1)] = device_ring[2]
            ELSE device_ring' = device_ring]_vars
  /\ [][AnalyzerStep =>
          IF Len(analysis_ring) >= ReadChunkLen
            THEN /\ Popped(analysis_ring, analysis_ring', ReadChunkLen)
                 /\ lv_pc' = "drain" =>
                      /\ lsq'[Len(lsq')] = Sq(analysis_ring[1])
                      /\ rsq'[Len(rsq')] = Sq(analysis_ring[2])
            ELSE analysis_ring' = analysis_ring]_vars
  /\ [][Len(device_ring') < Len(device_ring) =>
          Popped(device_ring, device_ring', ReadChunkLen)]_vars
  /\ [][Len(analysis_ring') < Len(analysis_ring) =>
          Popped(analysis_ring, analysis_ring', ReadChunkLen)]_vars

\* C18 witness: a query found a single sample in the analysis ring and left
\* it there, after a callback whose pop failed on a single sample too (the
\* one sample of the mono track)
C18_Witness ==
  /\ lv_pc = "idle"
  /\ drained = 0
  /\ analysis_ring = << 41 >>
  /\ device_ring = << 41 >>
  /\ cb_pc = "log"
  /\ failed_pops > 0

\* the values a track of file f can put out: its decoded samples, or what
\* the resampler computes from them
TrackSamples(f) ==
  LET decoded == UNION { { Files[f].packets[i].samples[j] :
                             j \in 1..Len(Files[f].packets[i].samples) } :
                           i \in 1..Len(Files[f].packets) } IN
  decoded \cup { Resampled(s) : s \in decoded }

\* C19 as claimed: the worker's pushes only extend what is in the playback
\* ring's history, everything pushed since the current command was taken
\* belongs to its track and everything pushed before lies before it, and the
\* worker takes the next command only when the track it leaves has run into
\* its end-of-stream or a fatal error.
C19_OneTrackAtATime ==
  /\ [](song \in Paths =>
          /\ track_start <= Len(WorkerPut)
          /\ \A i \in DOMAIN TrackPut : TrackPut[i] \in TrackSamples(song))
  /\ [][IsPrefix(put, put')]_vars
  /\ [][Len(opened') > Len(opened) => track_start' = Len(WorkerPut)]_vars
  /\ [][(Len(opened') > Len(opened) /\ song \in Paths /\ OpenOk(song)) =>
          NextSampleResult(song, pkt) = "err"]_vars

\* C20: a decode loop that meets the end of the stream or an unrecoverable
\* error leaves the worker idle, not stopped. An idle worker does not leave
\* a command waiting for ever; taking a command that names a file that
\* opens starts the decoding of that file at its first packet; a decoding
\* does not go on for ever; and when it is over the track was decoded up to
\* the packet that ended it and pushed in full.
C20_IdleAfterTrackEnd ==
  /\ [][DecodeStep /\ NextSampleResult(song, pkt) = "err" => wpc' = "recv"]_vars
  /\ []<>(~(wpc = "recv" /\ cmdq # << >>))
  /\ [][(Len(opened') > Len(opened) /\ OpenOk(Head(cmdq))) =>
          /\ wpc = "recv"
          /\ song' = Head(cmdq)
          /\ wpc' = "decode"
          /\ pkt' = 1]_vars
  /\ []<>(wpc \in {"recv", "panicked"})
  /\ []((wpc = "recv" /\ song \in Paths /\ OpenOk(song)) =>
          /\ NextSampleResult(song, pkt) # "some"
          /\ ~resampler => TrackProduced = Decoded(song, pkt)
          /\ TrackPut = TrackProduced)

\* C20 witness: track m ended on a fatal read error, and the command that
\* was next in the channel was taken and its track a decoded and pushed to
\* the end
C20_Witness ==
  /\ opened = << "m", "a" >>
  /\ wpc = "recv"
  /\ pkt = 3
  /\ TrackPut = Decoded("a", 3)
  /\ Len(TrackPut) = 4

\* a step of the decode loop that got a block on the resampling path
ResampleStep == DecodeStep /\ resampler /\ NextSampleResult(song, pkt) = "some"

\* C21: on the resampling path a decoded block is appended to the
\* accumulation buffer. While the buffer then holds less than a chunk
\* (channels * ChunkFrames samples) nothing is produced or pushed and the
\* worker goes to the next block. Otherwise exactly the oldest chunk leaves
\* the buffer, each channel's staging buffer gets the ChunkFrames samples of
\* its channel in order, and one output block is produced for pushing: frame
\* by frame, channel by channel, each sample computed from an input sample of
\* its own channel.
C21_ZeroOrOneChunkPerBlock ==
  [][ResampleStep =>
       LET nch == Files[song].channels
           n == nch * ChunkFrames
           buf == audio_buf \o Files[song].packets[pkt].samples
           staged == Deinterleave(SubSeq(buf, 1, n), nch)
           in_frame(k) == (((k - 1) \div nch) * Files[song].rate) \div DeviceSampleRate
       IN
       IF Len(buf) < n
         THEN /\ audio_buf' = buf
              /\ produced' = produced
              /\ output' = output
              /\ wpc' = "decode"
         ELSE /\ audio_buf' = SubSeq(buf, n + 1, Len(buf))
              /\ \A c \in 1..nch :
                   /\ Len(staged[c]) = ChunkFrames
                   /\ \A i \in 1..ChunkFrames : staged[c][i] = buf[(i - 1) * nch + c]
              /\ Len(output') = nch * ((ChunkFrames * DeviceSampleRate) \div Files[song].rate)
              /\ \A k \in 1..Len(output') :
                   output'[k] = Resampled(buf[in_frame(k) * nch + ((k - 1) % nch) + 1])
              /\ produced' = produced \o output'
              /\ out_pos' = 1
              /\ wpc' = (IF output' = << >> THEN "decode" ELSE "push")]_vars

\* C21 witness: the first block of track r gave no chunk, the second gave
\* one, made of the oldest two frames, and the rest stays in the buffer
C21_Witness ==
  /\ song = "r"
  /\ resampler
  /\ wpc = "push"
  /\ output = << Resampled(31), Resampled(32) >>
  /\ audio_buf = << 35, 36, 37, 38, 39, 40 >>

\* x and y are the channel-0 and the channel-1 sample of one frame of a
\* two-channel track, as decoded or as resampled
IsFramePair(x, y) ==
  \E f \in Paths :
    /\ Files[f].channels = 2
    /\ \E i \in 1..Len(Files[f].packets) :
         LET sm == Files[f].packets[i].samples IN
         \E k \in 1..(Len(sm) \div 2) :
            \/ x = sm[2 * k - 1] /\ y = sm[2 * k]
            \/ x = Resampled(sm[2 * k - 1]) /\ y = Resampled(sm[2 * k])

\* C22 as claimed: in a session that played two-channel tracks only, the
\* two samples of a frame the analyzer drains are the channel-0 and the
\* channel-1 sample of one and the same frame.
C22_DrainedPairIsOneFrame ==
  [][(/\ Len(analysis_ring') < Len(analysis_ring)
      /\ \A i \in 1..Len(opened) : Files[opened[i]].channels = 2) =>
        IsFramePair(analysis_ring[1], analysis_ring[2])]_vars

\* f is latency_ms * device_rate / 1000 rounded to the nearest whole number,
\* a half rounding up: f - 1/2 <= latency_ms * device_rate / 1000 < f + 1/2
IsRoundedLatency(f) ==
  /\ 2 * MsPerSecond * f - MsPerSecond <= 2 * latency_ms * DeviceSampleRate
  /\ 2 * latency_ms * DeviceSampleRate < 2 * MsPerSecond * f + MsPerSecond

\* the capacity a ring shows: the length at which it rejects a push
HoldsAtMost(ring, cap) == Len(ring) <= cap /\ (PushOk(ring) <=> Len(ring) < cap)

\* C23: both rings have the capacity 2 * f * channels for the whole session,
\* where f is latency_ms * device_rate / 1000 rounded: neither ring ever holds
\* more, a push is accepted below that length and rejected at it, and the
\* session's latency and channel count never change.
C23_CapacityFromLatency ==
  /\ [](\E f \in 0..(latency_ms * DeviceSampleRate + 1) :
          /\ IsRoundedLatency(f)
          /\ RingCapacity = 2 * f * device_channels
          /\ HoldsAtMost(device_ring, 2 * f * device_channels)
          /\ HoldsAtMost(analysis_ring, 2 * f * device_channels))
  /\ [][PushStep => (out_pos' = out_pos + 1) <=> PushOk(device_ring)]_vars
  /\ [][latency_ms' = latency_ms /\ device_channels' = device_channels]_vars

\* C23 witness: a session asked for one and a half frames of latency got two,
\* and its playback ring rejected a push when it held eight samples
C23_Witness ==
  /\ 2 * latency_ms * DeviceSampleRate = 3 * MsPerSecond
  /\ device_channels = 2
  /\ Len(device_ring) = 8
  /\ wpc = "sleep"

\* the state only the worker thread uses
WorkerPrivate == << wpc, song, pkt, resampler, audio_buf, output, out_pos >>

\* the state only the device callback uses
CallbackPrivate == << cb_pc, data, cb_frame, input_fell_behind >>

\* the state only the caller's level query uses
AnalyzerPrivate == << lv_pc, buf_size, lsq, rsq, rms >>

\* samples were added at the ring's end and none was taken
Grows(ring, after) == after # ring /\ IsPrefix(ring, after)

\* samples were taken from the ring
Shrinks(ring, after) == ~IsPrefix(ring, after)

\* C24: the threads meet only in the two rings (and in the command channel
\* the worker waits on). A step changes the private state of one thread at
\* most; samples enter either ring only in a step of the worker's push loop,
\* leave the playback ring only in a step of the callback's frame loop and
\* leave the analysis ring only in a step of the level query, each step
\* leaving the other threads' state alone. The worker can always take a step
\* while it decodes or pushes and whenever a command is waiting for it, and
\* it goes to sleep only after a rejected playback push.
C24_RingsSingleProducerSingleConsumer ==
  /\ [][/\ WorkerPrivate' # WorkerPrivate =>
             CallbackPrivate' = CallbackPrivate /\ AnalyzerPrivate' = AnalyzerPrivate
        /\ CallbackPrivate' # CallbackPrivate => AnalyzerPrivate' = AnalyzerPrivate]_vars
  /\ [][(Grows(device_ring, device_ring') \/ Grows(analysis_ring, analysis_ring')) =>
          /\ PushStep
          /\ CallbackPrivate' = CallbackPrivate
          /\ AnalyzerPrivate' = AnalyzerPrivate]_vars
  /\ [][Shrinks(device_ring, device_ring') =>
          /\ FrameStep
          /\ WorkerPrivate' = WorkerPrivate
          /\ AnalyzerPrivate' = AnalyzerPrivate
          /\ analysis_ring' = analysis_ring]_vars
  /\ [][Shrinks(analysis_ring, analysis_ring') =>
          /\ AnalyzerStep
          /\ sent' = sent
          /\ WorkerPrivate' = WorkerPrivate
          /\ CallbackPrivate' = CallbackPrivate
          /\ device_ring' = device_ring]_vars
  /\ [](wpc \in {"decode", "push"} => ENABLED Worker)
  /\ []((wpc = "recv" /\ cmdq # << >>) => ENABLED WorkerRecv)
  /\ [][(wpc' = "sleep" /\ wpc # "sleep") => PushStep /\ ~PushOk(device_ring)]_vars

\* C24 witness: the three threads are each in the middle of their loop: the
\* worker sleeps on a full playback ring, the callback is between two
\* frames and the level query is between two frames
C24_Witness ==
  /\ wpc = "sleep"
  /\ Len(device_ring) = RingCapacity
  /\ cb_pc = "frames"
  /\ cb_frame > 1
  /\ lv_pc = "drain"
  /\ Len(analysis_ring) >= ReadChunkLen

\* C25: a callback invocation on a buffer of F frames makes F iterations,
\* each with one pop attempt that either takes a frame or fails at once, and
\* returns: an iteration is always possible, whatever the playback ring holds
\* and wherever the worker is, the loop is left after frame F and not before,
\* and every invocation comes to its end.
C25_CallbackTerminates ==
  /\ [](cb_pc = "frames" => cb_frame <= Frames /\ ENABLED CallbackFrame)
  /\ [](cb_pc = "log" => cb_frame = Frames + 1 /\ ENABLED CallbackEnd)
  /\ [][FrameStep =>
          /\ cb_frame' = cb_frame + 1
          /\ IF ReadChunkOk(device_ring, ReadChunkLen)
               THEN Popped(device_ring, device_ring', ReadChunkLen)
                    /\ failed_pops' = failed_pops
               ELSE device_ring' = device_ring /\ failed_pops' = failed_pops + 1
          /\ WorkerPrivate' = WorkerPrivate]_vars
  /\ []<>(cb_pc = "idle")

\* C25 witness: an invocation on the largest buffer went through all its
\* frames and emptied the playback ring while the worker was asleep
C25_Witness ==
  /\ cb_pc = "log"
  /\ Frames = MaxFrames
  /\ cb_frame = Frames + 1
  /\ failed_pops = 0
  /\ device_ring = << >>
  /\ wpc = "sleep"

\* the length of the longest block file f decodes to
MaxBlockLen(f) ==
  LET lens == { Len(Files[f].packets[i].samples) : i \in 1..Len(Files[f].packets) } IN
  CHOOSE n \in lens : \A k \in lens : k <= n

\* C26 as claimed: on the resampling path the accumulation buffer always
\* holds fewer samples than a chunk plus a decoded block, and fewer than a
\* chunk when the track is over.
C26_NoInputLeftBehind ==
  (song \in Paths /\ resampler /\ wpc # "panicked") =>
     /\ Len(audio_buf) < ChunkSamples(song) + MaxBlockLen(song)
     /\ wpc = "recv" => Len(audio_buf) < ChunkSamples(song)

\* C27: the frames the callback takes from the ring are the consecutive
\* pairs of the sequence put into the ring, prefill included: frame k is made
\* of the samples at places 2k - 1 and 2k (counting from one) and is written
\* to slots 0 and 1 of its output frame, and a failed pop takes nothing, so
\* the pairing goes on unchanged after an underrun.
C27_FramesChannelAligned ==
  /\ [](/\ Len(emitted) % 2 = 0
        /\ \A k \in 1..(Len(emitted) \div 2) :
             emitted[2 * k - 1] = put[2 * k - 1] /\ emitted[2 * k] = put[2 * k])
  /\ [][FrameStep /\ ReadChunkOk(device_ring, ReadChunkLen) =>
          /\ data'[Slot(cb_frame, 0)] = put[Len(emitted) + 1]
          /\ data'[Slot(cb_frame, 1)] = put[Len(emitted) + 2]
          /\ Len(emitted') = Len(emitted) + 2]_vars
  /\ [][FrameStep /\ ~ReadChunkOk(device_ring, ReadChunkLen) =>
          emitted' = emitted /\ device_ring' = device_ring]_vars

\* C27 witness: the last frame of a callback whose first pop failed is the
\* pair made of the one sample of the mono track and the first sample of the
\* track after it, places 3 and 4 of what was put into the ring
C27_Witness ==
  /\ cb_pc = "log"
  /\ failed_pops > 0
  /\ data[Slot(Frames, 0)] = 41
  /\ data[Slot(Frames, 1)] = 11
  /\ put[3] = 41
  /\ put[4] = 11

\* the samples of the frames of silence a session starts with
SilentStart == latency_frames * device_channels

\* C28: a session starts with latency_frames * channels zeros in the
\* playback ring, half its capacity, and with an empty analysis ring. The
\* sequence put into the playback ring always begins with these zeros; while
\* fewer than latency_frames frames have been emitted every pop succeeds, no
\* underrun is flagged or logged, and the frame written is silence; so what
\* was emitted begins with latency_frames frames of zeros, before any track
\* sample.
C28_StartsWithSilence ==
  /\ device_ring = [i \in 1..SilentStart |-> 0]
  /\ 2 * Len(device_ring) = RingCapacity
  /\ analysis_ring = << >>
  /\ [](/\ Len(put) >= SilentStart
        /\ \A i \in 1..SilentStart : put[i] = 0
        /\ \A i \in 1..Len(emitted) : i <= SilentStart => emitted[i] = 0
        /\ Len(emitted) < SilentStart =>
             (failed_pops = 0 /\ ~input_fell_behind /\ underruns_logged = 0))
  /\ [][FrameStep /\ Len(emitted) < SilentStart =>
          /\ ReadChunkOk(device_ring, ReadChunkLen)
          /\ data'[Slot(cb_frame, 0)] = 0
          /\ data'[Slot(cb_frame, 1)] = 0
          /\ Len(emitted') = Len(emitted) + 2]_vars

\* C28 witness: a session with two frames of latency emitted its two frames
\* of silence and then the first frame of track a
C28_Witness ==
  /\ latency_frames = 2
  /\ emitted = << 0, 0, 0, 0, 11, 12 >>

\* C29: once the session is dropped the worker thread eventually terminates
\* (it leaves its receive loop, or it has panicked), wherever the drop
\* found it, in the middle of a track with the playback ring full included.
C29_WorkerTerminates == dropped ~> (wpc \in {"done", "panicked"})

====
